---- MODULE Spec2Model ----
(***************************************************************************)
(* Model of the raw-ingestion orchestrator                                 *)
(* (dags/DB_Raw_Ingestion/DB_Raw_Ingestion.py, class DB_Raw_Ingestion).    *)
(*                                                                         *)
(* One run of ingest_data is modelled step by step: every call to an       *)
(* external collaborator (warehouse connect, object-store put, warehouse   *)
(* statements, ledger file operations) is one step that may succeed or     *)
(* raise, and the process may be killed between any two steps.  A          *)
(* scheduler starts runs one after another (never two at once).            *)
(*                                                                         *)
(* File names and paths are sequences of one-character strings; SQL text   *)
(* is a sequence of lexical chunks (see the DDL section).                  *)
(***************************************************************************)
EXTENDS Integers, Sequences, FiniteSets, TLC

VARIABLES
    cfg_missing,          \* names of the environment variables that are unset
    local_files,          \* basenames present in local_data_folder
    sql_files,            \* schema_file name -> [exists, text] in sql_schema_folder
    log_exists,           \* processed_files.log exists on disk
    log_lines,            \* its lines, in file order
    tables,               \* warehouse: table_name -> [exists, rows]
    s3_objects,           \* staged objects: <<run, path>> stands for the timestamped key
    conn,                 \* "none" | "open" | "closed"  (local conn of ingest_data)
    close_count,          \* conn.close() calls made by the current run
    pc,                   \* position of the current run
    is_full_refresh,      \* argument of the current run
    processed_files,      \* local set processed_files
    all_local_csv_files,  \* local sorted list of discovered paths
    files_to_process,     \* local list files_to_process_in_this_run
    idx,                  \* 1-based position of the for loop in files_to_process
    sql_command,          \* last value of the local sql_command
    runs,                 \* number of runs started so far
    pre_ledger,           \* history: ledger contents when the current run started
    trace,                \* history: steps of the current run, <<op, path, ok>>
    pending,              \* history: paths staged whose commit has not happened since
    call,                 \* harness for pure functions: the arguments
    ret                   \* harness for pure functions: the result

vars == <<cfg_missing, local_files, sql_files, log_exists, log_lines, tables,
          s3_objects, conn, close_count, pc, is_full_refresh, processed_files,
          all_local_csv_files, files_to_process, idx, sql_command, runs,
          pre_ledger, trace, pending, call, ret>>

runVars == <<cfg_missing, local_files, sql_files, log_exists, log_lines, tables,
             s3_objects, conn, close_count, pc, is_full_refresh, processed_files,
             all_local_csv_files, files_to_process, idx, sql_command, runs,
             pre_ledger, trace, pending>>

(***************************************************************************)
(* Bounds                                                                  *)
(***************************************************************************)
MaxRuns == 2
MaxDDLLen == 6
MaxNamePieces == 6

Range(s) == {s[i] : i \in 1..Len(s)}

(***************************************************************************)
(* Characters, names, paths                                                *)
(***************************************************************************)
\* the characters used, in code-point order (str comparison used by sorted)
Chars == <<"-", ".", "/", "0", "1", "2", "3", "4", "5", "6", "7", "8", "9",
           "_", "a", "b", "c", "d", "e", "f", "g", "h", "i", "j", "k", "l",
           "m", "n", "o", "p", "q", "r", "s", "t", "u", "v", "w", "x", "y", "z">>

Ord(c) == CHOOSE i \in 1..Len(Chars) : Chars[i] = c

Digits == {"0", "1", "2", "3", "4", "5", "6", "7", "8", "9"}

DotCsv == <<".", "c", "s", "v">>

\* str < str
RECURSIVE StrLess(_, _)
StrLess(a, b) ==
    IF a = <<>> THEN b # <<>>
    ELSE IF b = <<>> THEN FALSE
    ELSE IF Head(a) = Head(b) THEN StrLess(Tail(a), Tail(b))
    ELSE Ord(Head(a)) < Ord(Head(b))

\* variant: the list is put in descending order
RECURSIVE Sorted_Descending(_)
Sorted_Descending(S) ==
    IF S = {} THEN <<>>
    ELSE LET m == CHOOSE x \in S : \A y \in S \ {x} : StrLess(y, x)
         IN  <<m>> \o Sorted_Descending(S \ {m})

\* sorted(iterable of str)
RECURSIVE Sorted(_)
Sorted(S) ==
    IF S = {} THEN <<>>
    ELSE LET m == CHOOSE x \in S : \A y \in S \ {x} : StrLess(x, y)
         IN  <<m>> \o Sorted(S \ {m})

EndsWith(s, suffix) ==
    /\ Len(s) >= Len(suffix)
    /\ SubSeq(s, Len(s) - Len(suffix) + 1, Len(s)) = suffix

\* self.local_data_folder
local_data_folder == <<"d">>

\* os.path.join(folder, name)
PathJoin(folder, name) == folder \o <<"/">> \o name

\* os.path.basename(path): what follows the last "/"
RECURSIVE Basename(_)
Basename(path) ==
    IF \E i \in 1..Len(path) : path[i] = "/"
    THEN Basename(Tail(path))
    ELSE path

\* glob.glob(os.path.join(self.local_data_folder, '*.csv'))
Glob(dir) == {PathJoin(local_data_folder, n) : n \in {m \in dir : EndsWith(m, DotCsv)}}

movies_csv == <<"m", "o", "v", "i", "e", "s", ".", "c", "s", "v">>
ratings_csv == <<"r", "a", "t", "i", "n", "g", "s", ".", "c", "s", "v">>
tags_csv == <<"t", "a", "g", "s", ".", "c", "s", "v">>
links_csv == <<"l", "i", "n", "k", "s", ".", "c", "s", "v">>
genome_scores_csv == <<"g", "e", "n", "o", "m", "e", "-", "s", "c", "o", "r", "e", "s", ".", "c", "s", "v">>
genome_tags_csv == <<"g", "e", "n", "o", "m", "e", "-", "t", "a", "g", "s", ".", "c", "s", "v">>
ratings_20240721_csv == <<"r", "a", "t", "i", "n", "g", "s", "_", "2", "0", "2", "4", "0", "7", "2", "1", ".", "c", "s", "v">>
ratings_20240722_csv == <<"r", "a", "t", "i", "n", "g", "s", "_", "2", "0", "2", "4", "0", "7", "2", "2", ".", "c", "s", "v">>
notes_csv == <<"n", "o", "t", "e", "s", ".", "c", "s", "v">>

\* the basenames that may be found in the data folder: a file the table
\* mapping does not know and two dated extracts of the same dataset
Files == {notes_csv, ratings_20240721_csv, ratings_20240722_csv}

Paths == {PathJoin(local_data_folder, n) : n \in Files}

(***************************************************************************)
(* Filename normaliser                                                     *)
(***************************************************************************)
\* variant: the pattern asks for seven digits
DateAt_SevenDigits(s, p) ==
    /\ p + 7 <= Len(s)
    /\ s[p] = "_"
    /\ \A k \in 1..7 : s[p + k] \in Digits

\* re.match of _\d{8} at position p of s
DateAt(s, p) ==
    /\ p + 8 <= Len(s)
    /\ s[p] = "_"
    /\ \A k \in 1..8 : s[p + k] \in Digits

\* re.search(r'_\d{8}', s): start of the leftmost match from p on, 0 when none
RECURSIVE SearchDate(_, _)
SearchDate(s, p) ==
    IF p > Len(s) THEN 0
    ELSE IF DateAt(s, p) THEN p
    ELSE SearchDate(s, p + 1)

\* variant: the extension is appended whether or not a date was found
_get_base_filename_AlwaysCsv(file_path) ==
    LET match_date == SearchDate(file_path, 1)
    IN  IF match_date # 0
        THEN SubSeq(file_path, 1, match_date - 1) \o DotCsv
        ELSE file_path \o DotCsv

\* variant: the name is cut at the end of the match instead of its start
_get_base_filename_CutsAtEnd(file_path) ==
    LET match_date == SearchDate(file_path, 1)
    IN  IF match_date # 0
        THEN SubSeq(file_path, 1, match_date + 8) \o DotCsv
        ELSE file_path

_get_base_filename(file_path) ==
    LET match_date == SearchDate(file_path, 1)
    IN  IF match_date # 0
        THEN SubSeq(file_path, 1, match_date - 1) \o DotCsv
        ELSE file_path

(***************************************************************************)
(* Table mapping registry                                                  *)
(***************************************************************************)
file_to_table_map ==
    (genome_scores_csv :> [table_name |-> "raw_genome_scores", schema_file |-> "raw_genome_scores.sql"])
    @@ (genome_tags_csv :> [table_name |-> "raw_genome_tags", schema_file |-> "raw_genome_tags.sql"])
    @@ (links_csv :> [table_name |-> "raw_links", schema_file |-> "raw_links.sql"])
    @@ (movies_csv :> [table_name |-> "raw_movies", schema_file |-> "raw_movies.sql"])
    @@ (ratings_csv :> [table_name |-> "raw_ratings", schema_file |-> "raw_ratings.sql"])
    @@ (tags_csv :> [table_name |-> "raw_tags", schema_file |-> "raw_tags.sql"])

TableNames == {file_to_table_map[k].table_name : k \in DOMAIN file_to_table_map}
SchemaFiles == {file_to_table_map[k].schema_file : k \in DOMAIN file_to_table_map}

\* self.file_to_table_map.get(base) is truthy
HasMapping(base) == base \in DOMAIN file_to_table_map

(***************************************************************************)
(* Configuration                                                           *)
(***************************************************************************)
\* the keys of required_vars in _validate_config
RequiredVars == {"SNOWFLAKE_ACCOUNT", "SNOWFLAKE_USER", "SNOWFLAKE_PASSWORD",
                 "SNOWFLAKE_WAREHOUSE", "SNOWFLAKE_DATABASE", "SNOWFLAKE_SCHEMA_RAW",
                 "S3_BUCKET", "S3_PREFIX", "SNOWFLAKE_STAGE_NAME",
                 "AWS_ACCESS_KEY_ID", "AWS_SECRET_ACCESS_KEY", "AWS_REGION"}

\* _validate_config returns normally (it raises ValueError otherwise).
\* No method of the class calls it.
_validate_config == cfg_missing \cap RequiredVars = {}

\* snowflake.connector.connect rejects a login without account, user or password
ConnectPossible ==
    cfg_missing \cap {"SNOWFLAKE_ACCOUNT", "SNOWFLAKE_USER", "SNOWFLAKE_PASSWORD"} = {}

\* put_object rejects Bucket = None
UploadPossible == "S3_BUCKET" \notin cfg_missing

(***************************************************************************)
(* DDL text and its rewrite                                                *)
(*                                                                         *)
(* SQL text is a sequence of chunks whose concatenation is the text.  The  *)
(* chunks are the keyword CREATE and the keyword TABLE in some letter      *)
(* case, one whitespace character, and chunks of other text that hold      *)
(* neither keyword.  The pattern CREATE\s+TABLE with re.IGNORECASE then    *)
(* matches exactly a CREATE chunk, one or more whitespace chunks and a     *)
(* TABLE chunk.                                                            *)
(***************************************************************************)
CreateTok == {"CREATE", "create", "Create"}
TableTok == {"TABLE", "table", "Table"}
WsTok == {" ", "\n"}

\* end of the match of CREATE\s+TABLE that starts at p, 0 when there is none
RECURSIVE SkipWs(_, _)
SkipWs(s, q) == IF q <= Len(s) /\ s[q] \in WsTok THEN SkipWs(s, q + 1) ELSE q

MatchEnd(s, p) ==
    IF p <= Len(s) /\ s[p] \in CreateTok
    THEN LET q == SkipWs(s, p + 1)
         IN  IF q > p + 1 /\ q <= Len(s) /\ s[q] \in TableTok THEN q ELSE 0
    ELSE 0

\* start of the leftmost match from p on, 0 when there is none
RECURSIVE SearchCreateTable(_, _)
SearchCreateTable(s, p) ==
    IF p > Len(s) THEN 0
    ELSE IF MatchEnd(s, p) # 0 THEN p
    ELSE SearchCreateTable(s, p + 1)

\* variant: the count argument is left out, every occurrence is replaced
RECURSIVE ReSubAll(_, _)
ReSubAll(repl, s) ==
    LET p == SearchCreateTable(s, 1)
    IN  IF p = 0 THEN s
        ELSE SubSeq(s, 1, p - 1) \o repl
             \o ReSubAll(repl, SubSeq(s, MatchEnd(s, p) + 1, Len(s)))

\* re.sub(r'CREATE\s+TABLE', repl, s, 1, re.IGNORECASE)
ReSubFirst(repl, s) ==
    LET p == SearchCreateTable(s, 1)
    IN  IF p = 0 THEN s
        ELSE SubSeq(s, 1, p - 1) \o repl \o SubSeq(s, MatchEnd(s, p) + 1, Len(s))

CreateOrReplaceTable == <<"CREATE", " ", "OR REPLACE", " ", "TABLE">>
CreateTableIfNotExists == <<"CREATE", " ", "TABLE", " ", "IF NOT EXISTS">>

\* the if/else that computes sql_command
RewriteDDL(sql_content, full) ==
    IF full
    THEN ReSubFirst(CreateOrReplaceTable, sql_content)
    ELSE ReSubFirst(CreateTableIfNotExists, sql_content)

(***************************************************************************)
(* Warehouse: what cursor.execute does with a table-creation statement     *)
(***************************************************************************)
Upper(c) == IF c \in CreateTok THEN "CREATE" ELSE IF c \in TableTok THEN "TABLE" ELSE c

\* the statement's tokens: whitespace dropped, keywords in upper case
Tokens(stmt) ==
    LET keep == SelectSeq(stmt, LAMBDA c : c \notin WsTok)
    IN  [i \in 1..Len(keep) |-> Upper(keep[i])]

\* "replace": drop the table if it exists and create it empty;
\* "if_not_exists": create it only when absent;
\* "create": create it, an error when it exists;
\* "error": the statement does not compile
DDLKind(stmt) ==
    LET t == Tokens(stmt)
    IN  IF t = <<"CREATE", "OR REPLACE", "TABLE", "t (c INT);">> THEN "replace"
        ELSE IF t = <<"CREATE", "TABLE", "IF NOT EXISTS", "t (c INT);">> THEN "if_not_exists"
        ELSE IF t = <<"CREATE", "TABLE", "t (c INT);">> THEN "create"
        ELSE "error"

\* the table after the statement, given that it executed without error
TableAfterDDL(kind, tbl) ==
    IF kind = "replace" THEN [exists |-> TRUE, rows |-> {}]
    ELSE IF tbl.exists THEN tbl
    ELSE [exists |-> TRUE, rows |-> {}]

DDLRaises(kind, tbl) == kind = "error" \/ (kind = "create" /\ tbl.exists)

PlainDDL == <<"CREATE", " ", "TABLE", " ", "t (c INT);">>

\* the forms a schema file takes
DDLSources ==
    { PlainDDL,
      <<"create", "\n", " ", "table", " ", "t (c INT);">>,
      <<"CREATE", " ", "OR REPLACE", " ", "TABLE", " ", "t (c INT);">>,
      <<"CREATE", " ", "TABLE", " ", "IF NOT EXISTS", " ", "t (c INT);">> }

NoFile == [exists |-> FALSE, text |-> <<>>]

(***************************************************************************)
(* Processed-file ledger                                                   *)
(***************************************************************************)
\* _get_processed_files
_get_processed_files == IF ~log_exists THEN {} ELSE Range(log_lines)

\* _log_processed_file: open(..., 'a') creates the file when absent
_log_processed_file(lines, file_path) == Append(lines, file_path)

\* variant: the incremental branch forgets the ledger
FilesToProcess_IgnoresLedger(all, processed, full) == all

\* variant: the incremental branch also leaves out files that still have a
\* staged object
FilesToProcess_SkipsStaged(all, processed, full) ==
    IF full THEN all
    ELSE SelectSeq(all, LAMBDA f : f \notin processed
                                   /\ f \notin {o[2] : o \in s3_objects})

\* the two branches that compute files_to_process_in_this_run
FilesToProcess(all, processed, full) ==
    IF full THEN all ELSE SelectSeq(all, LAMBDA f : f \notin processed)

\* variant: no finally block
Finally_NoClose(c) == c

\* finally: if conn: conn.close()
Finally(c) == IF c = "open" THEN "closed" ELSE c

(***************************************************************************)
(* Initial state: a fresh deployment (no ledger file, no table, nothing    *)
(* staged, an empty data folder).  Init: every setting is present, the     *)
(* schema files hold one form of DDL and at most one of them is missing.   *)
(* InitCfg: at most one required setting is unset, plain DDL everywhere.   *)
(***************************************************************************)
MissingSchemaCases == {{}, {"raw_ratings.sql"}}

SchemaFolder(text, missing) ==
    [s \in SchemaFiles |-> IF s \in missing THEN NoFile
                           ELSE [exists |-> TRUE, text |-> text]]

NoCall == [fn |-> "none", sql_content |-> <<>>, is_full_refresh |-> FALSE]
NoRet == [done |-> FALSE, val |-> <<>>]

InitRun ==
    /\ log_exists = FALSE
    /\ log_lines = <<>>
    /\ tables = [t \in TableNames |-> [exists |-> FALSE, rows |-> {}]]
    /\ s3_objects = {}
    /\ conn = "none"
    /\ close_count = 0
    /\ pc = "idle"
    /\ is_full_refresh = FALSE
    /\ processed_files = {}
    /\ all_local_csv_files = <<>>
    /\ files_to_process = <<>>
    /\ idx = 0
    /\ sql_command = <<>>
    /\ runs = 0
    /\ pre_ledger = {}
    /\ trace = <<>>
    /\ pending = {}

Init ==
    /\ cfg_missing = {}
    /\ local_files = {}
    /\ \E text \in DDLSources, missing \in MissingSchemaCases :
          sql_files = SchemaFolder(text, missing)
    /\ InitRun
    /\ call = NoCall
    /\ ret = NoRet

InitCfg ==
    /\ cfg_missing \in {{}} \cup {{v} : v \in RequiredVars}
    /\ local_files = {}
    /\ sql_files = SchemaFolder(PlainDDL, {})
    /\ InitRun
    /\ call = NoCall
    /\ ret = NoRet

(***************************************************************************)
(* Steps of ingest_data                                                    *)
(***************************************************************************)
Idle == {"idle", "Completed", "Failed", "Crashed"}
InRun == {"connect", "plan", "reset_create", "loop", "upload", "use_schema",
          "create_table", "copy", "log"}

Event(op, path, ok) == <<op, path, ok>>

\* the current element of the for loop and what is derived from it
local_file_path == files_to_process[idx]
full_filename == Basename(local_file_path)
base_csv_filename == _get_base_filename(full_filename)
mapping_info == file_to_table_map[base_csv_filename]
raw_table_name == mapping_info.table_name
sql_script_name == mapping_info.schema_file

\* an exception leaves the try block: except logs and re-raises, finally runs
Raise ==
    /\ pc' = "Failed"
    /\ conn' = Finally(conn)
    /\ close_count' = IF conn = "open" THEN close_count + 1 ELSE close_count

\* return, or the end of the for loop: finally runs
Return ==
    /\ pc' = "Completed"
    /\ conn' = Finally(conn)
    /\ close_count' = IF conn = "open" THEN close_count + 1 ELSE close_count

\* The scheduler (or the __main__ block) calls ingest_data; the lines before try.
\* dir is the content of the data folder as this run finds it: files may have
\* arrived or been taken away since the previous run.
StartRun(full, dir) ==
    /\ pc \in Idle
    /\ runs < MaxRuns
    /\ runs' = runs + 1
    /\ local_files' = dir
    /\ is_full_refresh' = full
    /\ conn' = "none"
    /\ close_count' = 0
    /\ processed_files' = _get_processed_files
    /\ all_local_csv_files' = Sorted(Glob(dir))
    /\ files_to_process' = <<>>
    /\ idx' = 0
    /\ pre_ledger' = _get_processed_files
    /\ trace' = <<>>
    /\ pc' = "connect"
    /\ UNCHANGED <<cfg_missing, sql_files, log_exists, log_lines,
                   tables, s3_objects, sql_command, pending, call, ret>>

\* variant: the full-refresh reset is done before the connection is known to work
Connect_ResetsFirst ==
    /\ pc = "connect"
    /\ \E ok \in BOOLEAN :
          /\ ok => ConnectPossible
          /\ IF ok
             THEN /\ conn' = "open"
                  /\ pc' = "plan"
                  /\ UNCHANGED <<close_count, log_exists, log_lines>>
             ELSE /\ Raise
                  /\ log_exists' = (log_exists \/ is_full_refresh)
                  /\ log_lines' = IF is_full_refresh THEN <<>> ELSE log_lines
    /\ UNCHANGED <<cfg_missing, local_files, sql_files, tables, s3_objects,
                   is_full_refresh, processed_files, all_local_csv_files,
                   files_to_process, idx, sql_command, runs, pre_ledger, trace,
                   pending, call, ret>>

\* conn = self._get_snowflake_connection()
Connect ==
    /\ pc = "connect"
    /\ \E ok \in BOOLEAN :
          /\ ok => ConnectPossible
          /\ IF ok
             THEN /\ conn' = "open"
                  /\ pc' = "plan"
                  /\ UNCHANGED close_count
             ELSE Raise
    /\ UNCHANGED <<cfg_missing, local_files, sql_files, log_exists, log_lines,
                   tables, s3_objects, is_full_refresh, processed_files,
                   all_local_csv_files, files_to_process, idx, sql_command,
                   runs, pre_ledger, trace, pending, call, ret>>

\* variant: no early return, the loop is entered with an empty work set
EnterLoop_NoEarlyReturn(files) ==
    /\ pc' = "loop"
    /\ idx' = 1
    /\ UNCHANGED <<conn, close_count>>

\* if not files_to_process_in_this_run: return; otherwise enter the loop
EnterLoop(files) ==
    IF files = <<>>
    THEN /\ Return
         /\ idx' = idx
    ELSE /\ pc' = "loop"
         /\ idx' = 1
         /\ UNCHANGED <<conn, close_count>>

\* the else branch of if is_full_refresh, and the empty check
PlanIncremental ==
    /\ pc = "plan"
    /\ ~is_full_refresh
    /\ LET files == FilesToProcess(all_local_csv_files, processed_files, FALSE)
       IN  /\ files_to_process' = files
           /\ processed_files' = processed_files \cup Range(files)
           /\ EnterLoop(files)
    /\ UNCHANGED <<cfg_missing, local_files, sql_files, log_exists, log_lines,
                   tables, s3_objects, is_full_refresh, all_local_csv_files,
                   sql_command, runs, pre_ledger, trace, pending, call, ret>>

\* variant: the reset rewrites the ledger file and stops one line short
ResetRemove_Partial ==
    /\ pc = "plan"
    /\ is_full_refresh
    /\ files_to_process' = FilesToProcess(all_local_csv_files, processed_files, TRUE)
    /\ log_lines' = IF log_lines = <<>> THEN <<>> ELSE Tail(log_lines)
    /\ pc' = "reset_create"
    /\ UNCHANGED <<cfg_missing, local_files, sql_files, log_exists, tables,
                   s3_objects, conn, close_count, is_full_refresh,
                   processed_files, all_local_csv_files, idx, sql_command,
                   runs, pre_ledger, trace, pending, call, ret>>

\* variant: the full refresh does not remove the ledger file
ResetRemove_KeepsLog ==
    /\ pc = "plan"
    /\ is_full_refresh
    /\ files_to_process' = FilesToProcess(all_local_csv_files, processed_files, TRUE)
    /\ pc' = "reset_create"
    /\ UNCHANGED <<cfg_missing, local_files, sql_files, log_exists, log_lines,
                   tables, s3_objects, conn, close_count, is_full_refresh,
                   processed_files, all_local_csv_files, idx, sql_command,
                   runs, pre_ledger, trace, pending, call, ret>>

\* the if branch up to os.remove(self.processed_files_log)
ResetRemove ==
    /\ pc = "plan"
    /\ is_full_refresh
    /\ files_to_process' = FilesToProcess(all_local_csv_files, processed_files, TRUE)
    /\ log_exists' = FALSE
    /\ log_lines' = <<>>
    /\ pc' = "reset_create"
    /\ UNCHANGED <<cfg_missing, local_files, sql_files, tables, s3_objects, conn,
                   close_count, is_full_refresh, processed_files,
                   all_local_csv_files, idx, sql_command, runs, pre_ledger,
                   trace, pending, call, ret>>

\* open(self.processed_files_log, 'a').close(); processed_files = set(); the empty check
ResetCreate ==
    /\ pc = "reset_create"
    /\ log_exists' = TRUE
    /\ processed_files' = {}
    /\ EnterLoop(files_to_process)
    /\ UNCHANGED <<cfg_missing, local_files, sql_files, log_lines, tables,
                   s3_objects, is_full_refresh, all_local_csv_files,
                   files_to_process, sql_command, runs, pre_ledger, trace,
                   pending, call, ret>>

\* the for loop is exhausted: the try block ends
FinishRun ==
    /\ pc = "loop"
    /\ idx > Len(files_to_process)
    /\ Return
    /\ UNCHANGED <<cfg_missing, local_files, sql_files, log_exists, log_lines,
                   tables, s3_objects, is_full_refresh, processed_files,
                   all_local_csv_files, files_to_process, idx, sql_command,
                   runs, pre_ledger, trace, pending, call, ret>>

\* variant: a mapping miss or a missing SQL script raises
LoopHead_MissIsFatal ==
    /\ pc = "loop"
    /\ idx <= Len(files_to_process)
    /\ IF ~HasMapping(base_csv_filename) \/ ~sql_files[sql_script_name].exists
       THEN /\ trace' = Append(trace, Event("skip", local_file_path, TRUE))
            /\ Raise
            /\ UNCHANGED idx
       ELSE /\ pc' = "upload"
            /\ UNCHANGED <<trace, idx, conn, close_count>>
    /\ UNCHANGED <<cfg_missing, local_files, sql_files, log_exists, log_lines,
                   tables, s3_objects, is_full_refresh, processed_files,
                   all_local_csv_files, files_to_process, sql_command, runs,
                   pre_ledger, pending, call, ret>>

\* top of the loop body: normalise, look up the mapping, check the SQL script
LoopHead ==
    /\ pc = "loop"
    /\ idx <= Len(files_to_process)
    /\ IF ~HasMapping(base_csv_filename)
       THEN /\ trace' = Append(trace, Event("skip", local_file_path, TRUE))
            /\ idx' = idx + 1
            /\ pc' = "loop"
       ELSE IF ~sql_files[sql_script_name].exists
       THEN /\ trace' = Append(trace, Event("skip", local_file_path, TRUE))
            /\ idx' = idx + 1
            /\ pc' = "loop"
       ELSE /\ pc' = "upload"
            /\ UNCHANGED <<trace, idx>>
    /\ UNCHANGED <<cfg_missing, local_files, sql_files, log_exists, log_lines,
                   tables, s3_objects, conn, close_count, is_full_refresh,
                   processed_files, all_local_csv_files, files_to_process,
                   sql_command, runs, pre_ledger, pending, call, ret>>

\* variant: a failed upload is tried again
Upload_Retries ==
    /\ pc = "upload"
    /\ \E ok \in BOOLEAN :
          /\ ok => UploadPossible
          /\ trace' = Append(trace, Event("stage", local_file_path, ok))
          /\ Len(trace) < 12
          /\ IF ok
             THEN /\ s3_objects' = s3_objects \cup {<<runs, local_file_path>>}
                  /\ pending' = pending \cup {local_file_path}
                  /\ pc' = "use_schema"
             ELSE /\ pc' = "upload"
                  /\ UNCHANGED <<s3_objects, pending>>
    /\ UNCHANGED <<cfg_missing, local_files, sql_files, log_exists, log_lines,
                   tables, conn, close_count, is_full_refresh, processed_files,
                   all_local_csv_files, files_to_process, idx, sql_command,
                   runs, pre_ledger, call, ret>>

\* variant: a failed upload is caught per file and the loop goes on
Upload_ContinuesOnError ==
    /\ pc = "upload"
    /\ \E ok \in BOOLEAN :
          /\ ok => UploadPossible
          /\ trace' = Append(trace, Event("stage", local_file_path, ok))
          /\ IF ok
             THEN /\ s3_objects' = s3_objects \cup {<<runs, local_file_path>>}
                  /\ pending' = pending \cup {local_file_path}
                  /\ pc' = "use_schema"
                  /\ UNCHANGED idx
             ELSE /\ pc' = "loop"
                  /\ idx' = idx + 1
                  /\ UNCHANGED <<s3_objects, pending>>
    /\ UNCHANGED <<cfg_missing, local_files, sql_files, log_exists, log_lines,
                   tables, conn, close_count, is_full_refresh, processed_files,
                   all_local_csv_files, files_to_process, sql_command, runs,
                   pre_ledger, call, ret>>

\* read the local file and self._upload_to_s3(file_content_buffer, s3_key)
Upload ==
    /\ pc = "upload"
    /\ \E ok \in BOOLEAN :
          /\ ok => UploadPossible
          /\ trace' = Append(trace, Event("stage", local_file_path, ok))
          /\ IF ok
             THEN /\ s3_objects' = s3_objects \cup {<<runs, local_file_path>>}
                  /\ pending' = pending \cup {local_file_path}
                  /\ pc' = "use_schema"
                  /\ UNCHANGED <<conn, close_count>>
             ELSE /\ Raise
                  /\ UNCHANGED <<s3_objects, pending>>
    /\ UNCHANGED <<cfg_missing, local_files, sql_files, log_exists, log_lines,
                   tables, is_full_refresh, processed_files, all_local_csv_files,
                   files_to_process, idx, sql_command, runs, pre_ledger, call, ret>>

\* self._execute_sql_command(conn, use_schema_sql, ...)
UseSchema ==
    /\ pc = "use_schema"
    /\ \E ok \in BOOLEAN :
          /\ trace' = Append(trace, Event("use_schema", local_file_path, ok))
          /\ IF ok
             THEN /\ pc' = "create_table"
                  /\ UNCHANGED <<conn, close_count>>
             ELSE Raise
    /\ UNCHANGED <<cfg_missing, local_files, sql_files, log_exists, log_lines,
                   tables, s3_objects, is_full_refresh, processed_files,
                   all_local_csv_files, files_to_process, idx, sql_command,
                   runs, pre_ledger, pending, call, ret>>

\* read the SQL script, rewrite it, execute it
CreateTable ==
    /\ pc = "create_table"
    /\ LET sql_content == sql_files[sql_script_name].text
           command == RewriteDDL(sql_content, is_full_refresh)
           kind == DDLKind(command)
           tbl == tables[raw_table_name]
       IN  /\ sql_command' = command
           /\ \E ok \in BOOLEAN :
                 /\ ok => ~DDLRaises(kind, tbl)
                 /\ trace' = Append(trace, Event("ddl", local_file_path, ok))
                 /\ IF ok
                    THEN /\ tables' = [tables EXCEPT ![raw_table_name] = TableAfterDDL(kind, tbl)]
                         /\ pc' = "copy"
                         /\ UNCHANGED <<conn, close_count>>
                    ELSE /\ Raise
                         /\ UNCHANGED tables
    /\ UNCHANGED <<cfg_missing, local_files, sql_files, log_exists, log_lines,
                   s3_objects, is_full_refresh, processed_files,
                   all_local_csv_files, files_to_process, idx, runs, pre_ledger,
                   pending, call, ret>>

\* variant: a failed load is swallowed and the file is logged all the same
Copy_SwallowsError ==
    /\ pc = "copy"
    /\ \E ok \in BOOLEAN :
          /\ ok => tables[raw_table_name].exists
          /\ trace' = Append(trace, Event("load", local_file_path, ok))
          /\ pc' = "log"
          /\ IF ok
             THEN /\ tables' = [tables EXCEPT ![raw_table_name].rows = @ \cup {local_file_path}]
                  /\ s3_objects' = s3_objects \ {<<runs, local_file_path>>}
             ELSE UNCHANGED <<tables, s3_objects>>
    /\ UNCHANGED <<cfg_missing, local_files, sql_files, log_exists, log_lines,
                   conn, close_count, is_full_refresh, processed_files,
                   all_local_csv_files, files_to_process, idx, sql_command,
                   runs, pre_ledger, pending, call, ret>>

\* self._copy_into_snowflake(conn, s3_key, raw_table_name); PURGE = TRUE
Copy ==
    /\ pc = "copy"
    /\ \E ok \in BOOLEAN :
          /\ ok => tables[raw_table_name].exists
          /\ trace' = Append(trace, Event("load", local_file_path, ok))
          /\ IF ok
             THEN /\ tables' = [tables EXCEPT ![raw_table_name].rows = @ \cup {local_file_path}]
                  /\ s3_objects' = s3_objects \ {<<runs, local_file_path>>}
                  /\ pc' = "log"
                  /\ UNCHANGED <<conn, close_count>>
             ELSE /\ Raise
                  /\ UNCHANGED <<tables, s3_objects>>
    /\ UNCHANGED <<cfg_missing, local_files, sql_files, log_exists, log_lines,
                   is_full_refresh, processed_files, all_local_csv_files,
                   files_to_process, idx, sql_command, runs, pre_ledger,
                   pending, call, ret>>

\* self._log_processed_file(local_file_path), then the next iteration
LogProcessed ==
    /\ pc = "log"
    /\ \E ok \in BOOLEAN :
          /\ trace' = Append(trace, Event("commit", local_file_path, ok))
          /\ IF ok
             THEN /\ log_lines' = _log_processed_file(log_lines, local_file_path)
                  /\ log_exists' = TRUE
                  /\ pending' = pending \ {local_file_path}
                  /\ idx' = idx + 1
                  /\ pc' = "loop"
                  /\ UNCHANGED <<conn, close_count>>
             ELSE /\ Raise
                  /\ UNCHANGED <<log_lines, log_exists, pending, idx>>
    /\ UNCHANGED <<cfg_missing, local_files, sql_files, tables, s3_objects,
                   is_full_refresh, processed_files, all_local_csv_files,
                   files_to_process, sql_command, runs, pre_ledger, call, ret>>

\* the process is killed in the middle of a run: nothing more runs, not even finally
Crash ==
    /\ pc \in InRun
    /\ pc' = "Crashed"
    /\ UNCHANGED <<cfg_missing, local_files, sql_files, log_exists, log_lines,
                   tables, s3_objects, conn, close_count, is_full_refresh,
                   processed_files, all_local_csv_files, files_to_process, idx,
                   sql_command, runs, pre_ledger, trace, pending, call, ret>>

Next ==
    \/ \E full \in BOOLEAN, dir \in SUBSET Files : StartRun(full, dir)
    \/ Connect
    \/ PlanIncremental
    \/ ResetRemove
    \/ ResetCreate
    \/ LoopHead
    \/ Upload
    \/ UseSchema
    \/ CreateTable
    \/ Copy
    \/ LogProcessed
    \/ FinishRun
    \/ Crash

Spec == Init /\ [][Next]_vars

SpecCfg == InitCfg /\ [][Next]_vars

(***************************************************************************)
(* Vocabulary of the properties                                            *)
(***************************************************************************)
Ledger == _get_processed_files

\* step op of path succeeded / was attempted in the current run
Did(op, path) == \E i \in 1..Len(trace) : trace[i] = Event(op, path, TRUE)
Tried(op, path) == \E i \in 1..Len(trace) : trace[i][1] = op /\ trace[i][2] = path
Touched(path) == \E i \in 1..Len(trace) : trace[i][2] = path /\ trace[i][1] # "skip"

Staged == {p \in Paths : Did("stage", p)}
Loaded == {p \in Paths : Did("load", p)}
Committed == {p \in Paths : Did("commit", p)}
Skipped == {p \in Paths : Did("skip", p)}

\* position of the first successful step op of path in the trace, 0 when none
PosOf(op, path) ==
    IF Did(op, path)
    THEN CHOOSE i \in 1..Len(trace) :
            /\ trace[i] = Event(op, path, TRUE)
            /\ \A j \in 1..(i - 1) : trace[j] # Event(op, path, TRUE)
    ELSE 0

Last(s) == s[Len(s)]

FatalOps == {"stage", "use_schema", "ddl", "load"}

\* the run has computed its work set and entered the loop
InLoop == pc \in {"loop", "upload", "use_schema", "create_table", "copy", "log"}

\* C1: the ledger file only ever changes by being emptied or by the append
\* of one path whose staging, table DDL and bulk load have all succeeded,
\* in that order, earlier in the same run.
C1_CommitOnlyAfterLoad ==
    [][log_lines' # log_lines =>
          \/ log_lines' = <<>>
          \/ \E p \in Paths :
                /\ log_lines' = Append(log_lines, p)
                /\ 0 < PosOf("stage", p)
                /\ PosOf("stage", p) < PosOf("ddl", p)
                /\ PosOf("ddl", p) < PosOf("load", p)]_vars

\* a second run has just committed a file while an entry of an earlier run is kept
C1_Witness ==
    /\ runs = 2
    /\ Len(log_lines) >= 2
    /\ trace # <<>>
    /\ Last(trace) = Event("commit", Last(log_lines), TRUE)
    /\ ~Did("commit", log_lines[1])

\* C2: when staging, schema selection, DDL or load fails for the N-th file of
\* the work set, the run is Failed, that file is not in the ledger, no later
\* file of the work set has any step attempted, and the earlier files that
\* were committed are in the ledger.
C2_FatalStepAbortsRun ==
    (trace # <<>> /\ Last(trace)[1] \in FatalOps /\ ~Last(trace)[3]) =>
        /\ pc = "Failed"
        /\ Last(trace)[2] = files_to_process[idx]
        /\ files_to_process[idx] \notin Ledger
        /\ \A j \in (idx + 1)..Len(files_to_process) :
              /\ ~Touched(files_to_process[j])
              /\ files_to_process[j] \notin Skipped
              /\ files_to_process[j] \notin Ledger \ pre_ledger
        /\ \A j \in 1..(idx - 1) :
              files_to_process[j] \in Committed => files_to_process[j] \in Ledger

\* a fatal step failed for a file that has a file before it and a file after
\* it in the work set
C2_Witness ==
    /\ pc = "Failed"
    /\ trace # <<>>
    /\ Last(trace)[1] \in FatalOps
    /\ ~Last(trace)[3]
    /\ idx >= 2
    /\ Len(files_to_process) > idx

\* C3 as stated: after an incremental run that completed or failed, the
\* ledger is its pre-run contents plus exactly the files loaded in the run,
\* and no file already in the ledger at the start was staged or loaded again.
C3_LedgerIsPrePlusLoaded ==
    (pc \in {"Completed", "Failed"} /\ ~is_full_refresh) =>
        /\ Ledger = pre_ledger \cup Loaded
        /\ \A p \in pre_ledger : ~Tried("stage", p) /\ ~Tried("load", p)

\* C3 amended: after an incremental run that completed or failed, the ledger
\* is its pre-run contents plus exactly the files committed in the run, each
\* of which was loaded in the run; a completed run committed every file it
\* loaded, a failed run left at most one loaded file uncommitted (the one
\* whose ledger append raised); no pre-run entry was staged or loaded again.
C3_LedgerIsPrePlusCommitted ==
    (pc \in {"Completed", "Failed"} /\ ~is_full_refresh) =>
        /\ Ledger = pre_ledger \cup Committed
        /\ Committed \subseteq Loaded
        /\ pc = "Completed" => Loaded = Committed
        /\ \A p \in Loaded \ Committed : Last(trace) = Event("commit", p, FALSE)
        /\ \A p \in pre_ledger : ~Tried("stage", p) /\ ~Tried("load", p)

\* an incremental run over a non-empty ledger has loaded and committed a new file
C3_Witness ==
    /\ pc \in {"Completed", "Failed"}
    /\ ~is_full_refresh
    /\ pre_ledger # {}
    /\ Committed # {}
    /\ \E p \in pre_ledger : p \in Range(all_local_csv_files)

\* C4: after a full-refresh run that completed, the ledger is exactly the set
\* of discovered files loaded in the run, each on one line: pre-run entries
\* that were not loaded again are gone and skipped files are absent.
C4_FullRefreshLedgerIsLoaded ==
    (pc = "Completed" /\ is_full_refresh) =>
        /\ Ledger = Loaded
        /\ Loaded \subseteq Range(all_local_csv_files)
        /\ Len(log_lines) = Cardinality(Loaded)
        /\ Skipped \cap Ledger = {}
        /\ \A p \in pre_ledger \ Loaded : p \notin Ledger

\* a completed full refresh has loaded a file, skipped one and dropped a pre-run entry
C4_Witness ==
    /\ pc = "Completed"
    /\ is_full_refresh
    /\ Loaded # {}
    /\ Skipped # {}
    /\ pre_ledger \ Ledger # {}

\* the file at position k of the work set is one the loop skips
Skippable(path) ==
    LET base == _get_base_filename(Basename(path))
    IN  \/ base \notin DOMAIN file_to_table_map
        \/ ~sql_files[file_to_table_map[base].schema_file].exists

\* C5: a file of the work set without table mapping, or whose DDL source is
\* missing, is skipped and nothing else: no step is attempted for it, it is
\* not in the ledger, the skip leaves ledger, staging area and tables as
\* they were and moves the loop to the next file, and a run never fails on it
\* (the step the run takes at such a file, unless the process is killed there).
C5_SkipIsNotFatal ==
    [][(/\ pc = "loop"
        /\ idx <= Len(files_to_process)
        /\ Skippable(files_to_process[idx])
        /\ pc' # "Crashed") =>
          /\ pc' = "loop"
          /\ idx' = idx + 1
          /\ trace' = Append(trace, Event("skip", files_to_process[idx], TRUE))
          /\ ~Touched(files_to_process[idx])
          /\ files_to_process[idx] \notin Ledger
          /\ UNCHANGED <<log_exists, log_lines, s3_objects, tables, conn>>]_vars

\* a run has completed after skipping a file and then committing the next one
C5_Witness ==
    /\ pc = "Completed"
    /\ \E i \in 1..Len(trace) :
          /\ trace[i][1] = "skip"
          /\ \E j \in (i + 1)..Len(trace) : trace[j][1] = "commit" /\ trace[j][3]

\* C6: a run that has returned (Completed or Failed) has no open connection;
\* if it opened one it closed it exactly once, otherwise it closed nothing.
C6_ConnectionReleased ==
    /\ close_count <= 1
    /\ pc \in {"Completed", "Failed"} =>
          /\ conn # "open"
          /\ conn = "closed" <=> close_count = 1
    /\ InLoop => conn = "open"

\* a run aborted by a fatal step has closed its connection
C6_Witness ==
    /\ pc = "Failed"
    /\ trace # <<>>
    /\ ~Last(trace)[3]
    /\ conn = "closed"
    /\ close_count = 1

\* C7: with a required setting absent, a run fails before it connects to the
\* warehouse, resets the ledger, stages, creates or loads anything.
C7_ConfigErrorBeforeAnyEffect ==
    ~_validate_config =>
        /\ conn = "none"
        /\ pc \in {"idle", "connect", "Failed", "Crashed"}
        /\ trace = <<>>
        /\ ~log_exists
        /\ s3_objects = {}
        /\ \A t \in TableNames : ~tables[t].exists

\* C8: a file that was staged in a run that stopped before committing it,
\* and that is still in the data folder, is in the work set of every later
\* incremental run, and such a run does not pass it without staging it again.
C8_UncommittedFileIsRetried ==
    (InLoop /\ ~is_full_refresh) =>
        \A p \in pending :
            Basename(p) \in local_files =>
                /\ p \in Range(files_to_process)
                /\ \A k \in 1..Len(files_to_process) :
                      (files_to_process[k] = p /\ k < idx) => Tried("stage", p)

\* an incremental run is about to stage again a file that an earlier run
\* staged and never committed
C8_Witness ==
    /\ pc = "upload"
    /\ ~is_full_refresh
    /\ runs >= 2
    /\ files_to_process[idx] \in pending

\* C9: a step of an incremental run never drops an existing table nor removes
\* rows from it.
C9_IncrementalPreservesTables ==
    [][(pc \in InRun /\ ~is_full_refresh) =>
          \A t \in TableNames :
              tables[t].exists =>
                  /\ tables'[t].exists
                  /\ tables[t].rows \subseteq tables'[t].rows]_vars

\* C14: the work set is in ascending order of path, and a step of a file is
\* taken only when every file before it in the work set has already been
\* committed or skipped in this run.
C14_SequentialInOrder ==
    /\ \A k \in 1..(Len(files_to_process) - 1) :
          StrLess(files_to_process[k], files_to_process[k + 1])
    /\ \A i \in 1..Len(trace) :
          \E k \in 1..Len(files_to_process) :
              /\ files_to_process[k] = trace[i][2]
              /\ \A h \in 1..(k - 1) :
                    \E j \in 1..(i - 1) :
                        \/ trace[j] = Event("commit", files_to_process[h], TRUE)
                        \/ trace[j] = Event("skip", files_to_process[h], TRUE)

\* a run has skipped its first file and committed its second and its third
C14_Witness ==
    /\ Len(files_to_process) = 3
    /\ Did("skip", files_to_process[1])
    /\ Did("commit", files_to_process[2])
    /\ Did("commit", files_to_process[3])

\* C15: from the start of a full-refresh run until its first commit, killed
\* or not, the ledger read from disk is the pre-run set or the empty set.
C15_ResetAllOrNothing ==
    (is_full_refresh /\ pc # "idle" /\ Committed = {}) =>
        \/ Ledger = pre_ledger
        \/ Ledger = {}

\* the process was killed between the removal of a ledger file of two
\* entries and the creation of the empty one
C15_Witness ==
    /\ pc = "Crashed"
    /\ is_full_refresh
    /\ Cardinality(pre_ledger) >= 2
    /\ ~log_exists
    /\ trace = <<>>
    /\ files_to_process # <<>>

\* C16: the planning step of a run whose work set is empty (incremental:
\* every discovered file is in the ledger; full refresh: nothing discovered)
\* ends the run as Completed with nothing staged, executed, loaded or
\* appended, and in incremental mode with the ledger file as it was.
C16_EmptyWorkSetIsNoOp ==
    [][(/\ \/ /\ pc = "plan"
              /\ ~is_full_refresh
              /\ Range(all_local_csv_files) \subseteq Ledger
           \/ /\ pc = "reset_create"
              /\ all_local_csv_files = <<>>
        /\ pc' # "Crashed") =>
          /\ pc' = "Completed"
          /\ files_to_process' = <<>>
          /\ trace' = <<>>
          /\ log_lines' = log_lines
          /\ ~is_full_refresh => UNCHANGED log_exists
          /\ UNCHANGED <<tables, s3_objects, sql_command>>]_vars

\* an incremental run found only files that are in the ledger and completed
C16_Witness ==
    /\ pc = "Completed"
    /\ ~is_full_refresh
    /\ all_local_csv_files # <<>>
    /\ files_to_process = <<>>
    /\ Ledger = pre_ledger
    /\ trace = <<>>

StepOrder == <<"stage", "use_schema", "ddl", "load", "commit">>

\* the steps of path in the current run, in the order they were taken
StepsOf(path) == SelectSeq(trace, LAMBDA e : e[2] = path /\ e[1] # "skip")

\* C17: the steps taken for a file in a run are a beginning of stage, select
\* schema, DDL, load, commit, each taken once and each after the success of
\* the one before; the run has staged one object for each file it staged.
C17_StepsInOrderOnce ==
    \A p \in Paths :
        /\ Len(StepsOf(p)) <= Len(StepOrder)
        /\ \A i \in 1..Len(StepsOf(p)) :
              /\ StepsOf(p)[i][1] = StepOrder[i]
              /\ i < Len(StepsOf(p)) => StepsOf(p)[i][3]
        /\ p \in Skipped => StepsOf(p) = <<>>
        /\ <<runs, p>> \in s3_objects => Did("stage", p)

\* a file has gone through its five steps
C17_Witness ==
    \E p \in Paths :
        /\ Len(StepsOf(p)) = 5
        /\ StepsOf(p)[5] = Event("commit", p, TRUE)

\* the table a path is loaded into
TableOf(path) == file_to_table_map[_get_base_filename(Basename(path))].table_name

\* C18: after a full-refresh run that completed, the rows of every file in
\* the ledger are in the file's target table.
C18_LedgerRowsPresent ==
    (pc = "Completed" /\ is_full_refresh) =>
        \A p \in Ledger : p \in tables[TableOf(p)].rows

\* C19: when the connection cannot be established the run fails at once and
\* leaves the ledger file, the staging area and the tables as they were,
\* with no work set and no step taken, whatever the mode.
C19_ConnectFailureChangesNothing ==
    [][(pc = "connect" /\ pc' = "Failed") =>
          /\ conn' = "none"
          /\ close_count' = 0
          /\ files_to_process' = <<>>
          /\ trace' = <<>>
          /\ UNCHANGED <<log_exists, log_lines, tables, s3_objects>>]_vars

\* a full-refresh run over a non-empty ledger failed to connect
C19_Witness ==
    /\ pc = "Failed"
    /\ conn = "none"
    /\ is_full_refresh
    /\ pre_ledger # {}
    /\ Ledger = pre_ledger
    /\ trace = <<>>

(***************************************************************************)
(* The DDL rewrite as a function: every text of at most MaxDDLLen chunks,  *)
(* in both modes.                                                          *)
(***************************************************************************)
DDLChunks == {"CREATE", "create", "TABLE", " ", "\n", "x"}

DDLTexts == UNION {[1..n -> DDLChunks] : n \in 0..MaxDDLLen}

InitDDL ==
    /\ cfg_missing = {}
    /\ local_files = {}
    /\ sql_files = SchemaFolder(PlainDDL, {})
    /\ InitRun
    /\ call \in [fn : {"RewriteDDL"}, sql_content : DDLTexts, is_full_refresh : BOOLEAN]
    /\ ret = NoRet

\* the if/else of lines 300-305 applied to the arguments
CallRewriteDDL ==
    /\ call.fn = "RewriteDDL"
    /\ ~ret.done
    /\ ret' = [done |-> TRUE, val |-> RewriteDDL(call.sql_content, call.is_full_refresh)]
    /\ UNCHANGED <<call, runVars>>

NextDDL == CallRewriteDDL

SpecDDL == InitDDL /\ [][NextDDL]_vars

\* s[i..j] is an occurrence of the creation clause
IsClause(s, i, j) ==
    /\ 1 <= i
    /\ i + 1 < j
    /\ j <= Len(s)
    /\ s[i] \in CreateTok
    /\ \A k \in (i + 1)..(j - 1) : s[k] \in WsTok
    /\ s[j] \in TableTok

Clauses(s) == {ij \in (1..Len(s)) \X (1..Len(s)) : IsClause(s, ij[1], ij[2])}

\* C10: the rewritten DDL is the input with its first creation clause (CREATE,
\* whitespace, TABLE in any letter case) replaced by CREATE OR REPLACE TABLE
\* in full-refresh mode and by CREATE TABLE IF NOT EXISTS in incremental
\* mode; the text before and after that clause, later clauses included, is
\* the input's, and a text without a clause is returned as it is.
C10_FirstClauseRewritten ==
    ret.done =>
        LET s == call.sql_content
            repl == IF call.is_full_refresh
                    THEN <<"CREATE", " ", "OR REPLACE", " ", "TABLE">>
                    ELSE <<"CREATE", " ", "TABLE", " ", "IF NOT EXISTS">>
        IN  IF Clauses(s) = {}
            THEN ret.val = s
            ELSE \E ij \in Clauses(s) :
                    /\ \A other \in Clauses(s) : ij[1] <= other[1]
                    /\ ret.val = SubSeq(s, 1, ij[1] - 1) \o repl \o SubSeq(s, ij[2] + 1, Len(s))

\* a text with two creation clauses, the first in lower case, has been rewritten
C10_Witness ==
    /\ ret.done
    /\ Cardinality(Clauses(call.sql_content)) >= 2
    /\ \E ij \in Clauses(call.sql_content) :
          /\ \A other \in Clauses(call.sql_content) : ij[1] <= other[1]
          /\ call.sql_content[ij[1]] = "create"

(***************************************************************************)
(* The filename normaliser as a function: every name made of at most       *)
(* MaxNamePieces pieces, a piece being a letter, a dot, an underscore, a   *)
(* digit or a run of seven digits (so that runs of 7, 8 and 9 digits       *)
(* occur in short names).                                                  *)
(***************************************************************************)
NamePieces == { <<"a">>, <<".">>, <<"_">>, <<"1">>,
                <<"2", "0", "2", "4", "0", "7", "2">> }

RECURSIVE Flatten(_)
Flatten(pieces) ==
    IF pieces = <<>> THEN <<>> ELSE Head(pieces) \o Flatten(Tail(pieces))

Names == {Flatten(ps) : ps \in UNION {[1..n -> NamePieces] : n \in 0..MaxNamePieces}}

InitNorm ==
    /\ cfg_missing = {}
    /\ local_files = {}
    /\ sql_files = SchemaFolder(PlainDDL, {})
    /\ InitRun
    /\ call \in [fn : {"_get_base_filename"}, file_path : Names]
    /\ ret = NoRet

\* line 266 applied to the argument
CallGetBaseFilename ==
    /\ call.fn = "_get_base_filename"
    /\ ~ret.done
    /\ ret' = [done |-> TRUE, val |-> _get_base_filename(call.file_path)]
    /\ UNCHANGED <<call, runVars>>

NextNorm == CallGetBaseFilename

SpecNorm == InitNorm /\ [][NextNorm]_vars

\* s has an underscore at i followed by at least n digits
DigitsAfter(s, i, n) ==
    /\ 1 <= i
    /\ i + n <= Len(s)
    /\ s[i] = "_"
    /\ \A k \in (i + 1)..(i + n) : s[k] \in Digits

\* the positions of s where an underscore is followed by (at least) 8 digits
Tokens8(s) == {i \in 1..Len(s) : DigitsAfter(s, i, 8)}

\* the number of consecutive digits that follow position i of s
RunAfter(s, i) ==
    CHOOSE n \in 0..Len(s) :
        /\ \A k \in (i + 1)..(i + n) : k <= Len(s) /\ s[k] \in Digits
        /\ (i + n + 1 <= Len(s)) => s[i + n + 1] \notin Digits

Underscores(s) == {i \in 1..Len(s) : s[i] = "_"}

\* C11: normalising the result of a normalisation gives that result again.
C11_NormalizeIdempotent ==
    ret.done => _get_base_filename(ret.val) = ret.val

\* a name with a date token has been normalised to a different name
C11_Witness ==
    /\ ret.done
    /\ Tokens8(call.file_path) # {}
    /\ ret.val # call.file_path

\* C12: for a name that has an underscore followed by 8 digits, the result
\* is the text before the first such place followed by ".csv", and the
\* result has no underscore followed by 8 digits.
C12_TokenStripped ==
    (ret.done /\ Tokens8(call.file_path) # {}) =>
        \E i \in Tokens8(call.file_path) :
            /\ \A j \in Tokens8(call.file_path) : i <= j
            /\ ret.val = SubSeq(call.file_path, 1, i - 1) \o <<".", "c", "s", "v">>
            /\ Tokens8(ret.val) = {}

\* a name with two date tokens has been normalised
C12_Witness ==
    /\ ret.done
    /\ Cardinality(Tokens8(call.file_path)) >= 2

\* C13 as stated: a name in which no underscore is followed by exactly 8
\* digits (each is followed by fewer, or by more) is returned unchanged.
C13_OnlyExactlyEight ==
    (ret.done /\ \A i \in Underscores(call.file_path) : RunAfter(call.file_path, i) # 8) =>
        ret.val = call.file_path

\* C13 amended: a name in which every underscore is followed by fewer than 8
\* digits is returned unchanged; an underscore followed by 8 digits or more
\* is a date token, whose first 8 digits are the match.
C13_AtLeastEight ==
    ret.done =>
        /\ (\A i \in Underscores(call.file_path) : RunAfter(call.file_path, i) < 8)
              => ret.val = call.file_path
        /\ (\E i \in Underscores(call.file_path) : RunAfter(call.file_path, i) >= 8)
              => /\ EndsWith(ret.val, <<".", "c", "s", "v">>)
                 /\ Len(ret.val) < Len(call.file_path)

\* a name whose only underscore is followed by seven digits came back unchanged
C13_Witness ==
    /\ ret.done
    /\ Underscores(call.file_path) # {}
    /\ \A i \in Underscores(call.file_path) : RunAfter(call.file_path, i) = 7
    /\ ret.val = call.file_path

====
